---- MODULE Spec2Model ----
(***************************************************************************)
(* Finance News Dashboard (nippon_news.py): the fetch / dedup / classify   *)
(* pipeline and the rendering of one Streamlit session.                    *)
(*                                                                         *)
(* A title is a sequence of one-character strings, so that title[:512] is  *)
(* a real prefix operation.  A feed entry is a record that carries only    *)
(* the attributes the feed supplied: reading a missing attribute raises    *)
(* (feedparser's AttributeError), hasattr is membership in DOMAIN.         *)
(***************************************************************************)
EXTENDS Integers, Sequences, FiniteSets, TLC

\* ---------------------------------------------------------------- config
SEARCH_TERMS ==
    << "NSE", "BSE", "Sensex", "Nifty", "stock market", "IPO", "RBI",
       "banking", "earnings", "quarterly results", "dividend", "merger",
       "acquisition", "sales", "revenue", "inflation", "rate" >>

ARTICLES_PER_REFRESH == 10

\* the character budget of title[:512]
TITLE_BUDGET == 512

\* ---------------------------------------------------------------- bounds
\* script runs (page loads and button clicks) of one session
MaxRuns == 2
\* entries of one feed drawn from HotEntries
MaxFeedLen == 2
\* entries of the wire feed, more than one refresh may take
WireLen == 11
\* largest num_articles of a direct call of fetch_news
MaxN == 2

\* ---------------------------------------------------------------- inputs
Min(a, b) == IF a <= b THEN a ELSE b

Letters ==
    << "a", "b", "c", "d", "e", "f", "g", "h", "i", "j", "k", "l", "m",
       "n", "o", "p", "q", "r", "s", "t", "u", "v", "w", "x", "y", "z" >>

ShortTitle == << "a" >>
\* one character more than the classifier's budget
LongTitle == [i \in 1..(TITLE_BUDGET + 1) |-> IF i <= TITLE_BUDGET THEN "x" ELSE "y"]
WireTitle(k) == << "w", Letters[k] >>

\* A headline longer than the budget, with a source; an entry without a
\* title; a short headline without a link or a source.
HotEntries ==
    { [title |-> LongTitle, link |-> "mint/x", source |-> [title |-> "Mint"]],
      [link |-> "mint/untitled"],
      [title |-> ShortTitle] }

\* The wire's entries name their source by href only.
WireEntry(k) ==
    [title |-> WireTitle(k), link |-> "wire", source |-> [href |-> "wire"]]

WireFeed == [k \in 1..WireLen |-> WireEntry(k)]

RECURSIVE SeqsUpTo(_, _)
SeqsUpTo(S, n) ==
    IF n = 0 THEN { <<>> }
    ELSE LET shorter == SeqsUpTo(S, n - 1)
         IN  shorter \cup { Append(s, x) : s \in shorter, x \in S }

\* What feedparser.parse(url) can do for one term: raise, or return a feed.
PARSE_RAISES == [raises |-> TRUE]
FeedResults ==
    { PARSE_RAISES }
    \cup { [raises |-> FALSE, entries |-> es] : es \in SeqsUpTo(HotEntries, MaxFeedLen) }
    \cup { [raises |-> FALSE, entries |-> WireFeed] }

\* What the classifier can do with one text: return a label, or raise.
\* The page handles three labels; the classifier is a black box and may
\* name its classes otherwise.
HandledLabels == { "positive", "neutral", "negative" }
LABELS == HandledLabels \cup { "Positive" }
RAISES == "<raises>"
WireTexts == { WireTitle(k) : k \in 1..WireLen }
ClassifierOutcomes(text) ==
    IF text \in WireTexts THEN { "neutral" } ELSE LABELS \cup { RAISES }

\* ---------------------------------------------------------------- state
VARIABLES
    session_all_articles,   \* st.session_state.all_articles
    pc,                     \* position of the script run
    phase,                  \* which call of fetch_news: "refresh" | "initial"
    runs,                   \* script runs started
    num_articles,           \* fetch_news: the argument
    all_articles,           \* fetch_news: the local list
    seen_titles,            \* fetch_news: the local set
    term_i,                 \* fetch_news: terms of SEARCH_TERMS already visited
    gets,                   \* log: the terms an HTTP GET was issued for, this pass
    exc,                    \* log: whether the last iteration raised, and the entries read before
    fetched,                \* the value fetch_news returned
    records,                \* process_articles: the local list
    calls,                  \* log: the classifier calls of this process_articles
    aborted,                \* the script run ended with an uncaught exception
    page                    \* what the run rendered

vars ==
    << session_all_articles, pc, phase, runs, num_articles, all_articles,
       seen_titles, term_i, gets, exc, fetched, records, calls, aborted, page >>

NO_EXC == [raised |-> FALSE]
BLANK_PAGE == [widgets |-> {}]


\* ---------------------------------------------------------------- fetch_news
HasAttr(obj, name) == name \in DOMAIN obj

Titles(articles) == { articles[i].Title : i \in 1..Len(articles) }

\* mutant: the pass starts without the titles of the session list
SeenNothing(session) == {}

\* seen_titles = {article['Title'] for article in st.session_state.all_articles}
SeenAtStart(session) == Titles(session)

\* entry.title not in seen_titles
IsNew(entry, seen) == entry.title \notin seen

\* if len(all_articles) >= num_articles: break      (inside the entry loop)
EntryBreak(all, n) == Len(all) >= n

\* mutant: the loop over the terms never stops early
NeverTermBreak(all, n) == FALSE

\* if len(all_articles) >= num_articles: break      (after the try statement)
TermBreak(all, n) == Len(all) >= n

\* mutant: the handler throws away what the pass has collected
OnExceptionDiscard(all, seen) == [all |-> <<>>, seen |-> seen, raised |-> TRUE]

\* except Exception: continue -- the locals are left as the raising
\* statement found them
OnException(all, seen) == [all |-> all, seen |-> seen, raised |-> TRUE]

\* The entry loop of one feed, from the locals (all, seen).
RECURSIVE ScanEntries(_, _, _, _)
ScanEntries(entries, all, seen, n) ==
    IF entries = <<>>
    THEN [all |-> all, seen |-> seen, raised |-> FALSE]
    ELSE LET entry == Head(entries)
         IN  IF ~HasAttr(entry, "title")
             THEN OnException(all, seen)
             ELSE LET new == IsNew(entry, seen)
                      all2 == IF new THEN Append(all, entry) ELSE all
                      seen2 == IF new THEN seen \cup { entry.title } ELSE seen
                  IN  IF EntryBreak(all2, n)
                      THEN [all |-> all2, seen |-> seen2, raised |-> FALSE]
                      ELSE ScanEntries(Tail(entries), all2, seen2, n)

\* The body of the try statement for one feed result.
TryTerm(res, all, seen, n) ==
    IF res.raises THEN OnException(all, seen)
    ELSE ScanEntries(res.entries, all, seen, n)

\* The entries of a feed result the loop has read when it raises.
RECURSIVE TitledPrefix(_)
TitledPrefix(entries) ==
    IF entries = <<>> \/ ~HasAttr(Head(entries), "title") THEN <<>>
    ELSE << Head(entries) >> \o TitledPrefix(Tail(entries))

ReadBeforeRaise(res) == IF res.raises THEN <<>> ELSE TitledPrefix(res.entries)

\* mutant: the list is returned whole
NoSlice(all, n) == all

\* return all_articles[:num_articles]      (num_articles >= 0)
Slice(all, n) == SubSeq(all, 1, Min(n, Len(all)))

\* The locals of fetch_news once it has returned.
FetchLocalsDead ==
    /\ all_articles' = <<>>
    /\ seen_titles' = {}
    /\ term_i' = 0
    /\ gets' = <<>>
    /\ exc' = NO_EXC

\* The locals of process_articles once it has returned.
ProcessLocalsDead ==
    /\ records' = <<>>
    /\ calls' = <<>>

\* fetch_news(n) is entered: lines 43-44.
EnterFetch(ph, n) ==
    /\ pc' = "fetch"
    /\ phase' = ph
    /\ num_articles' = n
    /\ all_articles' = <<>>
    /\ seen_titles' = SeenAtStart(session_all_articles)
    /\ term_i' = 0
    /\ gets' = <<>>
    /\ exc' = NO_EXC
    /\ fetched' = <<>>

\* One iteration of "for term in SEARCH_TERMS", and the return when the
\* loop ends with it.
FetchTerm ==
    /\ pc = "fetch"
    /\ term_i < Len(SEARCH_TERMS)
    /\ \E res \in FeedResults :
         LET term == SEARCH_TERMS[term_i + 1]
             scan == TryTerm(res, all_articles, seen_titles, num_articles)
             stop == \/ ~scan.raised /\ TermBreak(scan.all, num_articles)
                     \/ term_i + 1 = Len(SEARCH_TERMS)
         IN  /\ gets' = Append(gets, term)
             /\ term_i' = term_i + 1
             /\ all_articles' = scan.all
             /\ seen_titles' = scan.seen
             /\ exc' = IF scan.raised
                       THEN [raised |-> TRUE, before |-> ReadBeforeRaise(res)]
                       ELSE NO_EXC
             /\ IF stop
                THEN /\ pc' = "returned"
                     /\ fetched' = Slice(scan.all, num_articles)
                ELSE /\ pc' = "fetch"
                     /\ fetched' = fetched
    /\ UNCHANGED << session_all_articles, phase, runs, num_articles, records,
                    calls, aborted, page >>


\* ---------------------------------------------------------------- process_articles
\* mutant: the classifier is given the whole title
NoTruncate(title) == title

\* title[:512]
Truncate(title) == SubSeq(title, 1, Min(TITLE_BUDGET, Len(title)))

\* getattr(art, "source", {}).get("title", "Unknown") if hasattr(art, "source") else "Unknown"
SourceOf(art) ==
    IF HasAttr(art, "source") /\ HasAttr(art.source, "title")
    THEN art.source.title
    ELSE "Unknown"

\* records.append({...})
Record(art, sentiment) ==
    [Title |-> art.title, Source |-> SourceOf(art), Sentiment |-> sentiment,
     Link |-> art.link]

\* mutant: the new records go behind the old ones
AssignedAtEnd(ph, processed, session) ==
    IF ph = "refresh" THEN session \o processed ELSE processed

\* st.session_state.all_articles = processed + st.session_state.all_articles
\* st.session_state.all_articles = process_articles(initial_articles)
Assigned(ph, processed, session) ==
    IF ph = "refresh" THEN processed \o session ELSE processed

\* mutant: the records made before the exception are stored
AbortStoringPartial ==
    /\ pc' = "idle"
    /\ aborted' = TRUE
    /\ page' = [widgets |-> { "exception" }]
    /\ session_all_articles' = records \o session_all_articles
    /\ UNCHANGED << fetched, records, calls >>

\* An exception nothing catches ends the script run; Streamlit shows it.
\* The logs keep what process_articles had done when it raised.
Abort ==
    /\ pc' = "idle"
    /\ aborted' = TRUE
    /\ page' = [widgets |-> { "exception" }]
    /\ UNCHANGED << session_all_articles, fetched, records, calls >>

\* if new_articles: / if initial_articles:   -- process_articles is entered
StartProcess ==
    /\ pc = "returned"
    /\ fetched # <<>>
    /\ pc' = "process"
    /\ records' = <<>>
    /\ calls' = <<>>
    /\ FetchLocalsDead
    /\ UNCHANGED << session_all_articles, phase, runs, num_articles, fetched,
                    aborted, page >>

\* else: st.info("No new articles found."), and then line 107;
\* an initial load that found nothing goes on to the display.
NoNewArticles ==
    /\ pc = "returned"
    /\ fetched = <<>>
    /\ IF phase = "refresh" /\ session_all_articles = <<>>
       THEN EnterFetch("initial", ARTICLES_PER_REFRESH)
       ELSE /\ pc' = "display"
            /\ FetchLocalsDead
            /\ UNCHANGED << phase, num_articles, fetched >>
    /\ UNCHANGED << session_all_articles, runs, records, calls, aborted, page >>

\* One iteration of "for art in articles"; with the last one
\* process_articles returns and the caller assigns the session list.
ProcessOne ==
    /\ pc = "process"
    /\ Len(records) < Len(fetched)
    /\ LET art == fetched[Len(records) + 1]
       IN  IF ~HasAttr(art, "link")
           THEN Abort /\ UNCHANGED << phase, runs, num_articles, all_articles,
                                      seen_titles, term_i, gets, exc >>
           ELSE \E out \in ClassifierOutcomes(Truncate(art.title)) :
                  IF out = RAISES
                  THEN Abort /\ UNCHANGED << phase, runs, num_articles, all_articles,
                                             seen_titles, term_i, gets, exc >>
                  ELSE LET recs == Append(records, Record(art, out))
                       IN  /\ records' = recs
                           /\ calls' = Append(calls, [text |-> Truncate(art.title), label |-> out])
                           /\ IF Len(recs) = Len(fetched)
                              THEN /\ session_all_articles' =
                                          Assigned(phase, recs, session_all_articles)
                                   /\ pc' = "display"
                              ELSE /\ pc' = "process"
                                   /\ UNCHANGED session_all_articles
                           /\ UNCHANGED << phase, runs, num_articles, all_articles,
                                           seen_titles, term_i, gets, exc,
                                           fetched, aborted, page >>

\* ---------------------------------------------------------------- display
\* len(df[df['Sentiment'] == label])
CountOf(df, label) == Cardinality({ i \in 1..Len(df) : df[i].Sentiment = label })

\* df['Sentiment'].value_counts()
ValueCounts(df) ==
    [label \in { df[i].Sentiment : i \in 1..Len(df) } |-> CountOf(df, label)]

\* for idx, row in df.iterrows(): one container per row
ArticleList(df) == df

\* The widgets of the "if st.session_state.all_articles:" branch.
Dashboard(df) ==
    [widgets |-> { "metric", "plotly_chart", "article_list" },
     total |-> Len(df),
     positive |-> CountOf(df, "positive"),
     neutral |-> CountOf(df, "neutral"),
     negative |-> CountOf(df, "negative"),
     chart |-> ValueCounts(df),
     list |-> ArticleList(df)]

\* else: st.info("Click 'Refresh News' to load articles.")
EmptyPage == [widgets |-> { "info" }]

Display ==
    /\ pc = "display"
    /\ page' = IF session_all_articles # <<>>
               THEN Dashboard(session_all_articles)
               ELSE EmptyPage
    /\ pc' = "idle"
    /\ fetched' = <<>>
    /\ ProcessLocalsDead
    /\ UNCHANGED << session_all_articles, phase, runs, num_articles, all_articles,
                    seen_titles, term_i, gets, exc, aborted >>

\* ---------------------------------------------------------------- script runs
\* The user clicks "Refresh News": the script runs with the button true.
ClickRefresh ==
    /\ pc = "idle"
    /\ runs < MaxRuns
    /\ runs' = runs + 1
    /\ aborted' = FALSE
    /\ page' = BLANK_PAGE
    /\ EnterFetch("refresh", ARTICLES_PER_REFRESH)
    /\ ProcessLocalsDead
    /\ UNCHANGED session_all_articles

\* The script runs with the button false (the page is loaded or reloaded).
Rerun ==
    /\ pc = "idle"
    /\ runs < MaxRuns
    /\ runs' = runs + 1
    /\ aborted' = FALSE
    /\ page' = BLANK_PAGE
    /\ IF session_all_articles = <<>>
       THEN EnterFetch("initial", ARTICLES_PER_REFRESH)
       ELSE /\ pc' = "display"
            /\ fetched' = <<>>
            /\ UNCHANGED << phase, num_articles, all_articles, seen_titles,
                            term_i, gets, exc >>
    /\ ProcessLocalsDead
    /\ UNCHANGED session_all_articles

\* if 'all_articles' not in st.session_state: st.session_state.all_articles = []
Init ==
    /\ session_all_articles = <<>>
    /\ pc = "idle"
    /\ phase = "initial"
    /\ runs = 0
    /\ num_articles = ARTICLES_PER_REFRESH
    /\ all_articles = <<>>
    /\ seen_titles = {}
    /\ term_i = 0
    /\ gets = <<>>
    /\ exc = NO_EXC
    /\ fetched = <<>>
    /\ records = <<>>
    /\ calls = <<>>
    /\ aborted = FALSE
    /\ page = BLANK_PAGE

Next ==
    \/ ClickRefresh
    \/ Rerun
    \/ FetchTerm
    \/ StartProcess
    \/ NoNewArticles
    \/ ProcessOne
    \/ Display

Spec == Init /\ [][Next]_vars

\* fetch_news(n) called for any small n, on an empty session or on one
\* that holds a record; the script goes on from the call as it does from
\* its own two calls.
FetchSessions ==
    { <<>>,
      << [Title |-> LongTitle, Source |-> "Mint", Sentiment |-> "negative",
          Link |-> "mint/x"] >> }

InitFetch ==
    /\ session_all_articles \in FetchSessions
    /\ pc = "fetch"
    /\ phase \in IF session_all_articles = <<>>
                 THEN { "refresh", "initial" }
                 ELSE { "refresh" }
    /\ runs = 1
    /\ num_articles \in 0..MaxN
    /\ all_articles = <<>>
    /\ seen_titles = SeenAtStart(session_all_articles)
    /\ term_i = 0
    /\ gets = <<>>
    /\ exc = NO_EXC
    /\ fetched = <<>>
    /\ records = <<>>
    /\ calls = <<>>
    /\ aborted = FALSE
    /\ page = BLANK_PAGE

SpecFetch == InitFetch /\ [][Next]_vars


\* ================================================================ claims
IsPrefix(s, t) == Len(s) <= Len(t) /\ SubSeq(t, 1, Len(s)) = s

InFetch == pc \in { "fetch", "returned" }

\* ---------------------------------------------------------------- C1
\* C1: no two records of the session list have the same Title, whatever
\* the feeds return and however often the page is refreshed.
C1_NoDuplicateTitles ==
    \A i, j \in 1..Len(session_all_articles) :
        i # j => session_all_articles[i].Title # session_all_articles[j].Title

\* A second pass has met the wire again and has taken only what it had left.
C1_Witness ==
    /\ Len(session_all_articles) > ARTICLES_PER_REFRESH
    /\ pc = "idle"

\* ---------------------------------------------------------------- C2
C2_Returned == pc = "returned" => Len(fetched) <= num_articles

C2_Growth ==
    Len(session_all_articles') <= Len(session_all_articles) + ARTICLES_PER_REFRESH

\* C2: fetch_news(n) never returns more than n entries, and no step of a
\* script run (a refresh or an initial load assigns the list in one step)
\* lengthens the session list by more than ARTICLES_PER_REFRESH.
C2_AtMostN == []C2_Returned /\ [][C2_Growth]_vars

\* The cap cut a pass short: ten entries collected, terms left unvisited.
C2_Witness ==
    /\ pc = "returned"
    /\ num_articles = ARTICLES_PER_REFRESH
    /\ Len(fetched) = ARTICLES_PER_REFRESH
    /\ term_i < Len(SEARCH_TERMS)

\* ---------------------------------------------------------------- C3
\* C3 as stated: a pass that has returned has issued one GET for each term
\* of SEARCH_TERMS, in list order.
C3_OneGetPerTerm == pc = "returned" => gets = SEARCH_TERMS

\* C3 as amended: the GETs of a pass are one per visited term, in list
\* order from the first term on; the pass goes on to the next term exactly
\* while no term has been read without an exception leaving num_articles
\* or more entries collected, and it returns after that term or after the
\* last one.
C3_OneGetPerVisitedTerm ==
    /\ InFetch => gets = SubSeq(SEARCH_TERMS, 1, term_i)
    /\ pc = "fetch" /\ term_i > 0 =>
           exc.raised \/ Len(all_articles) < num_articles
    /\ pc = "returned" =>
           \/ term_i = Len(SEARCH_TERMS)
           \/ ~exc.raised /\ Len(all_articles) >= num_articles

\* A pass that stopped after some terms and before the last.
C3_Witness ==
    /\ pc = "returned"
    /\ term_i > 1
    /\ term_i < Len(SEARCH_TERMS)
    /\ Len(gets) = term_i

\* ---------------------------------------------------------------- C4
\* C4: process_articles calls the classifier once per article, in order,
\* with the first 512 characters of the title (the whole title when it is
\* shorter); the record keeps the whole title and the label of that call.
C4_OneCallPerArticle ==
    pc \in { "process", "display" } =>
        /\ Len(calls) = Len(records)
        /\ Len(records) <= Len(fetched)
        /\ pc = "display" => Len(records) = Len(fetched)
        /\ \A j \in 1..Len(records) :
               LET title == fetched[j].title
                   text == calls[j].text
               IN  /\ Len(text) = Min(TITLE_BUDGET, Len(title))
                   /\ \A k \in 1..Len(text) : text[k] = title[k]
                   /\ records[j].Title = title
                   /\ records[j].Sentiment = calls[j].label

\* process_articles has returned a batch with a title beyond the budget.
C4_Witness ==
    /\ pc = "display"
    /\ Len(records) >= 2
    /\ \E j \in 1..Len(records) :
           /\ Len(records[j].Title) > TITLE_BUDGET
           /\ Len(calls[j].text) = TITLE_BUDGET

\* ---------------------------------------------------------------- C5
\* C5: on a rendered dashboard the Positive, Neutral and Negative metrics
\* sum to the Total Articles metric.
C5_CountsSumToTotal ==
    "metric" \in page.widgets =>
        page.positive + page.neutral + page.negative = page.total

\* ---------------------------------------------------------------- C6
\* C6: the rendered article list comes with a sentiment filter, and with
\* no sentiment selected it shows every record of the table in table order.
C6_ListHasFilter ==
    "article_list" \in page.widgets =>
        /\ "sentiment_filter" \in page.widgets
        /\ page.list = session_all_articles

\* ---------------------------------------------------------------- C7
\* C7: whenever the dashboard is rendered for a non-empty table it offers
\* the CSV export of the table.
C7_ExportOffered ==
    pc = "idle" /\ ~aborted /\ session_all_articles # <<>> /\ "metric" \in page.widgets =>
        "download_button" \in page.widgets

\* ---------------------------------------------------------------- C8
C8_Kept ==
    pc = "fetch" /\ pc' \in { "fetch", "returned" } =>
        IsPrefix(all_articles, all_articles')

C8_State ==
    /\ InFetch => gets = SubSeq(SEARCH_TERMS, 1, term_i)
    /\ InFetch /\ exc.raised =>
           /\ \A k \in 1..Len(exc.before) :
                  /\ exc.before[k].title \in seen_titles
                  /\ \/ exc.before[k].title \in Titles(session_all_articles)
                     \/ \E i \in 1..Len(all_articles) :
                            all_articles[i].title = exc.before[k].title
           /\ pc = (IF term_i < Len(SEARCH_TERMS) THEN "fetch" ELSE "returned")
           /\ ~aborted
    /\ pc = "returned" =>
           /\ Len(fetched) <= num_articles
           /\ \A i, j \in 1..Len(fetched) :
                  i # j => fetched[i].title # fetched[j].title
           /\ \A i \in 1..Len(fetched) :
                  fetched[i].title \notin Titles(session_all_articles)

\* C8: a term whose fetch or parse raises gets its one GET and no other;
\* what the pass had collected, from earlier terms and from this term
\* before the exception, is kept; the pass goes on with the next term and
\* fetch_news returns at most n entries without duplicates.
C8_FailingTermSkipped == []C8_State /\ [][C8_Kept]_vars

\* A feed raised after the loop had read entries of it, in a pass that
\* had collected entries from earlier terms, and the pass goes on.
C8_Witness ==
    /\ pc = "fetch"
    /\ exc.raised
    /\ term_i >= 2
    /\ Len(exc.before) >= 1
    /\ Len(all_articles) >= 2
    /\ all_articles[Len(all_articles)].title = exc.before[1].title

\* ---------------------------------------------------------------- C9
C9_Step ==
    \/ session_all_articles' = session_all_articles
    \/ /\ pc = "process"
       /\ pc' = "display"
       /\ Len(records') = Len(fetched)
       /\ \A j \in 1..Len(fetched) :
              /\ records'[j].Title = fetched[j].title
              /\ records'[j].Link = fetched[j].link
       /\ session_all_articles' = records' \o session_all_articles
       /\ phase = "initial" => session_all_articles = <<>>

\* C9: a step leaves the session list as it was, or puts the records of
\* the fetched batch, in fetch order, in front of the previous list; the
\* initial load assigns only an empty list.
C9_OnlyPrepends == [][C9_Step]_vars

\* A refresh has put a batch in front of an earlier one.
C9_Witness ==
    /\ pc = "display"
    /\ phase = "refresh"
    /\ Len(records) >= 1
    /\ Len(session_all_articles) > Len(records)
    /\ SubSeq(session_all_articles, 1, Len(records)) = records

\* ---------------------------------------------------------------- C10
C10_Step ==
    /\ aborted' /\ ~aborted => session_all_articles' = session_all_articles
    /\ session_all_articles' # session_all_articles =>
           /\ Len(calls') = Len(fetched)
           /\ \A j \in 1..Len(fetched) : calls'[j].label \in LABELS

C10_State ==
    /\ aborted =>
           \A j \in 1..Len(fetched) :
               fetched[j].title \notin Titles(session_all_articles)
    /\ pc = "fetch" /\ term_i = 0 =>
           seen_titles = Titles(session_all_articles)

\* C10: the session list is assigned only when every article of the batch
\* has been classified; a run that an exception ends leaves the list as it
\* was, no title of its batch is in the list, and the next pass starts
\* from the titles of the list alone.
C10_AllOrNothing == []C10_State /\ [][C10_Step]_vars

\* The classifier raised on a later article of a batch.
C10_Witness ==
    /\ aborted
    /\ Len(records) >= 1
    /\ Len(records) < Len(fetched)
    /\ HasAttr(fetched[Len(records) + 1], "link")

====
